---- MODULE Spec2Model ----
(***************************************************************************)
(* Log-structured key-value store: an append-only record log per segment   *)
(* file, an in-memory index (HashMap) per segment, replay of the file on   *)
(* open (Store::init), and size-based rotation (StorageEngine).            *)
(*                                                                         *)
(* Two programs are modelled:                                              *)
(*   multi  = "Version 0 - With limited size multiple log append life"     *)
(*   single = "Version 0 - Single Log Append File"                         *)
(*                                                                         *)
(* Calls are single steps in Spec, SpecIO, SpecRestart, SpecStore and       *)
(* SpecSingle; in SpecPublish and SpecWriters a call of StorageEngine::set  *)
(* is one step per statement, so that calls interleave.                    *)
(*                                                                         *)
(* A file is a sequence of bytes; a byte is a one-character string, the    *)
(* delimiter '\0' is written "NUL".  Streams are byte-transparent (what is *)
(* written is what is stored).                                             *)
(*                                                                         *)
(* uint64_t / size_t values are held as their two's-complement signed      *)
(* representative: -1 stands for 2^64 - 1.  Addition and subtraction of    *)
(* representatives are addition and subtraction modulo 2^64; unsigned      *)
(* comparison is UGt below.                                                *)
(***************************************************************************)
EXTENDS Integers, Sequences, FiniteSets, TLC

\* ------------------------------------------------------------------ bounds
MaxOps == 4        \* calls made on one StorageEngine history
MaxStoreOps == 3   \* calls made on one Store history

\* ------------------------------------------------------- program constants
DELIMITER == "NUL"
MAX_FILE_BYTE_SIZE == 20

\* --------------------------------------------------------------- inputs
Keys == {1, 12}
\* n bytes "b"
Fill(n) == [i \in 1..n |-> "b"]
\* a value whose frame takes more than half a segment
LongValue == Fill(8)
\* a value whose frame alone is longer than MAX_FILE_BYTE_SIZE
HugeValue == Fill(18)
\* values without the delimiter byte
CleanValues == {<<>>, <<"a">>, LongValue, HugeValue}
\* values that contain the delimiter byte
DelimValues == {<<DELIMITER, "a">>, <<DELIMITER, ",">>}
Values == CleanValues \cup DelimValues
\* values used where the outcome of the I/O is an input too
IOValues == {<<"a">>, LongValue}
\* values handed to StorageEngine::set: the clean ones and one that holds
\* the delimiter
EngineValues == CleanValues \cup {<<DELIMITER, "a">>}
\* values handed to one Store: also one that leaves an empty frame behind
StoreValues == Values \cup {<<DELIMITER>>}

\* ------------------------------------------------------ unsigned compare
\* a >= b on uint64_t: the capacity test off by one
UGt_OrEqual(a, b) == IF (a < 0) = (b < 0) THEN a >= b ELSE a < 0

\* a > b on uint64_t, on two's-complement representatives
UGt(a, b) == IF (a < 0) = (b < 0) THEN a > b ELSE a < 0

\* ------------------------------------------------------- std::to_string
DigitChars == <<"0", "1", "2", "3", "4", "5", "6", "7", "8", "9">>

RECURSIVE NatToString(_)
NatToString(n) ==
    IF n < 10 THEN <<DigitChars[n + 1]>>
    ELSE NatToString(n \div 10) \o <<DigitChars[(n % 10) + 1]>>

to_string(k) == IF k < 0 THEN <<"-">> \o NatToString(-k) ELSE NatToString(k)

\* ------------------------------------------------------------ std::stoi
IsDigit(c) == \E i \in 1..10 : DigitChars[i] = c
DigitVal(c) == (CHOOSE i \in 1..10 : DigitChars[i] = c) - 1

\* number of leading digits of s
RECURSIVE DigitPrefixLen(_)
DigitPrefixLen(s) ==
    IF s = <<>> \/ ~IsDigit(Head(s)) THEN 0 ELSE 1 + DigitPrefixLen(Tail(s))

RECURSIVE DigitsValue(_, _)
DigitsValue(s, acc) ==
    IF s = <<>> THEN acc ELSE DigitsValue(Tail(s), acc * 10 + DigitVal(Head(s)))

\* stoi: optional sign, then the longest run of digits; throws when there is
\* no digit.  [ok |-> FALSE] is the throw.
stoi(s) ==
    LET signed == s # <<>> /\ Head(s) \in {"-", "+"}
        body == IF signed THEN Tail(s) ELSE s
        n == DigitPrefixLen(body)
        mag == DigitsValue(SubSeq(body, 1, n), 0)
    IN IF n = 0 THEN [ok |-> FALSE, value |-> 0]
       ELSE [ok |-> TRUE,
             value |-> IF signed /\ Head(s) = "-" THEN -mag ELSE mag]

\* ---------------------------------------------------------------- HashMap
\* std::map<int, MetaData> plus currByteOffset
EmptyHashMap == [entries |-> <<>>, currByteOffset |-> 0]

\* HashMap::add keeping the entry a key already has (std::map::insert)
HashMap_add_KeepFirst(c, key, recordSize) ==
    [entries |-> c.entries @@ (key :> [byteOffset |-> c.currByteOffset,
                                       byteSize |-> recordSize]),
     currByteOffset |-> c.currByteOffset + recordSize]

HashMap_add(c, key, recordSize) ==
    [entries |-> (key :> [byteOffset |-> c.currByteOffset,
                          byteSize |-> recordSize]) @@ c.entries,
     currByteOffset |-> c.currByteOffset + recordSize]

HashMap_get(c, key) ==
    IF key \in DOMAIN c.entries THEN c.entries[key]
    ELSE [byteOffset |-> 0, byteSize |-> 0]

\* ------------------------------------------------------------ std::getline
\* position (1-based) of the first ch after the first pos bytes, 0 if none
FindFrom(bytes, pos, ch) ==
    LET hits == {i \in (pos + 1)..Len(bytes) : bytes[i] = ch}
    IN IF hits = {} THEN 0
       ELSE CHOOSE i \in hits : \A j \in hits : i <= j

\* std::getline(in, data, DELIMITER) with the stream at byte position pos:
\* the bytes up to the delimiter (consumed, not stored); eof when the end of
\* the file is hit before a delimiter; pos is the stream position afterwards
Getline(bytes, pos) ==
    LET d == FindFrom(bytes, pos, DELIMITER)
    IN IF d # 0
       THEN [data |-> SubSeq(bytes, pos + 1, d - 1), eof |-> FALSE, pos |-> d]
       ELSE [data |-> SubSeq(bytes, pos + 1, Len(bytes)), eof |-> TRUE,
             pos |-> Len(bytes)]

\* in.tellg(): the position, or pos_type(-1) once eofbit is set (the sentry
\* sets failbit on a stream that is not good())
Tellg(g) == IF g.eof THEN -1 ELSE g.pos

\* ------------------------------------------------------------ Store::init
\* the record size taken from the text read, leaving the delimiter out
recordSize_DataSize(g, startPos) == Len(g.data)

\* uint64_t recordSize = in.tellg(); recordSize -= startPos;
recordSize(g, startPos) == Tellg(g) - startPos

\* the replay loop, while (in) { ... }, entered with the stream at pos
RECURSIVE Replay(_, _, _, _)
Replay(bytes, pos, cache, currentOffset) ==
    LET startPos == pos
        g == Getline(bytes, pos)
        commaPos == FindFrom(g.data, 0, ",")
        keyStr == SubSeq(g.data, 1, commaPos - 1)
        parsed == stoi(keyStr)
        size == recordSize(g, startPos)
    IN IF g.data = <<>> /\ g.eof
         THEN [cache |-> cache, currentOffset |-> currentOffset]
       ELSE IF g.data = <<>>
         THEN Replay(bytes, g.pos, cache, currentOffset)
       ELSE IF commaPos = 0 \/ ~parsed.ok
         THEN IF g.eof
              THEN [cache |-> cache, currentOffset |-> Tellg(g)]
              ELSE Replay(bytes, g.pos, cache, Tellg(g))
       ELSE IF g.eof
         THEN [cache |-> HashMap_add(cache, parsed.value, size),
               currentOffset |-> currentOffset + size]
         ELSE Replay(bytes, g.pos,
                     HashMap_add(cache, parsed.value, size),
                     currentOffset + size)

\* Store::Store(dir) of the multi program: a Store object over file seq of
\* the directory files; openOk is whether store.open succeeds
Store_new(files, seq, openOk) ==
    IF seq \notin DOMAIN files
    THEN [seq |-> seq, cache |-> EmptyHashMap, totalBytes |-> 0,
          isOpen |-> openOk, good |-> TRUE]
    ELSE LET r == Replay(files[seq], 0, EmptyHashMap, 0)
         IN [seq |-> seq, cache |-> r.cache, totalBytes |-> r.currentOffset,
             isOpen |-> openOk, good |-> TRUE]

\* Store::open: std::ios::app creates the file when it does not exist
open(files, seq, openOk) ==
    IF openOk /\ seq \notin DOMAIN files THEN (seq :> <<>>) @@ files
    ELSE files

\* ------------------------------------------------------------- Store::set
\* the Store after set(key, data, bytes); ioOk is whether the write and the
\* flush succeed
Store_set(st, key, data, bytes, ioOk) ==
    IF ~st.isOpen THEN st
    ELSE [st EXCEPT !.totalBytes = @ + bytes,
                    !.cache = HashMap_add(@, key, bytes),
                    !.good = @ /\ ioOk]

Store_set_result(st) == st.isOpen

\* the file after set: a stream that is not good() writes nothing
Store_set_file(st, bytes0, data, ioOk) ==
    IF st.isOpen /\ st.good /\ ioOk THEN bytes0 \o data ELSE bytes0

\* ------------------------------------------------------------- Store::get
\* Store::get without the size test (byteSize < 0 is never true of a uint64_t)
Store_get_NoSizeTest(st, files, key, out) ==
    LET metaData == HashMap_get(st.cache, key)
    IN IF st.seq \notin DOMAIN files THEN [found |-> FALSE, out |-> out]
       ELSE [found |-> TRUE,
             out |-> Getline(files[st.seq], metaData.byteOffset).data]

\* in.seekg(byteOffset) then std::getline(in, out, DELIMITER); out keeps its
\* content when the seek fails
Store_get(st, files, key, out) ==
    LET metaData == HashMap_get(st.cache, key)
    IN IF metaData.byteSize = 0 THEN [found |-> FALSE, out |-> out]
       ELSE IF st.seq \notin DOMAIN files THEN [found |-> FALSE, out |-> out]
       ELSE IF metaData.byteOffset < 0 THEN [found |-> TRUE, out |-> out]
       ELSE IF metaData.byteOffset > Len(files[st.seq])
            THEN [found |-> TRUE, out |-> <<>>]
       ELSE [found |-> TRUE,
             out |-> Getline(files[st.seq], metaData.byteOffset).data]

Store_getTotalBytes(st) == st.totalBytes

\* ------------------------------------------------------ StorageEngine::get
\* StorageEngine::get walking the list back to front (oldest segment first)
RECURSIVE StorageEngine_get_OldestFirst(_, _, _)
StorageEngine_get_OldestFirst(stores, files, key) ==
    IF stores = <<>> THEN [found |-> FALSE, out |-> <<>>]
    ELSE LET r == Store_get(stores[Len(stores)], files, key, <<>>)
         IN IF r.found THEN r
            ELSE StorageEngine_get_OldestFirst(
                     SubSeq(stores, 1, Len(stores) - 1), files, key)

\* StorageEngine::get asking the front store only
StorageEngine_get_FrontOnly(stores, files, key) ==
    IF stores = <<>> THEN [found |-> FALSE, out |-> <<>>]
    ELSE LET r == Store_get(Head(stores), files, key, <<>>)
         IN IF r.found THEN r ELSE [found |-> FALSE, out |-> <<>>]

\* the first store of the list, front to back, whose get returns true
RECURSIVE StorageEngine_get(_, _, _)
StorageEngine_get(stores, files, key) ==
    IF stores = <<>> THEN [found |-> FALSE, out |-> <<>>]
    ELSE LET r == Store_get(Head(stores), files, key, <<>>)
         IN IF r.found THEN r ELSE StorageEngine_get(Tail(stores), files, key)

\* -------------------------------------------------------------------- state
VARIABLES
    disk,          \* the directory: sequence number -> bytes of <prefix>_<n>.txt
    activeStores,  \* StorageEngine::activeStores, front first
    totalFiles,    \* StorageEngine::totalFiles
    ret,           \* what the last StorageEngine call did and returned
    lastWrite,     \* history: key -> the most recent successful Put of that key
    nOps,          \* history: calls made so far
    sfile,         \* Store alone: the bytes of its file
    sstore,        \* Store alone (multi): the Store object
    instance,      \* Store alone (single): HashMap::getInstance()
    slog,          \* history: the records appended to sfile
    sret,          \* what the last Store call did and returned
    lastOpen,      \* history: file and index right after the latest Store::Store
    sealed,        \* history: sequence number -> the segment as it was when a
                   \* newer segment was pushed in front of it
    segLog,        \* history: sequence number -> the records appended to that file
    puts,          \* calls of StorageEngine::set in flight: caller -> its position
    buffered       \* sequence number -> bytes in that Store's ofstream buffer,
                   \* written with << and not yet flushed

engineVars == <<disk, activeStores, totalFiles, ret, lastWrite, sealed, segLog>>
storeVars == <<sfile, sstore, instance, slog, sret, lastOpen>>
flightVars == <<puts, buffered>>
vars == <<disk, activeStores, totalFiles, ret, lastWrite, nOps,
          sfile, sstore, instance, slog, sret, lastOpen,
          sealed, segLog, puts, buffered>>

NoRet == [op |-> "none", key |-> 0, value |-> <<>>, result |-> FALSE,
          out |-> <<>>, store |-> 0, created |-> 0, existed |-> FALSE,
          ioOk |-> TRUE, before |-> <<>>]

NoStore == [seq |-> 0, cache |-> EmptyHashMap, totalBytes |-> 0,
            isOpen |-> FALSE, good |-> TRUE]

NoSRet == [op |-> "none", key |-> 0, result |-> FALSE, out |-> <<>>,
           clean |-> TRUE, cut |-> 0, before |-> <<>>, prevOpen |-> <<>>]

EngineIdle ==
    /\ disk = <<>>
    /\ activeStores = <<>>
    /\ totalFiles = 0
    /\ ret = NoRet
    /\ lastWrite = <<>>
    /\ sealed = <<>>
    /\ segLog = <<>>

\* no call of StorageEngine::set is in flight
FlightIdle ==
    /\ puts = <<>>
    /\ buffered = <<>>

StoreIdle ==
    /\ sfile = <<>>
    /\ sstore = NoStore
    /\ instance = EmptyHashMap
    /\ slog = <<>>
    /\ sret = NoSRet
    /\ lastOpen = <<>>

\* the frame StorageEngine::set builds
Encode(key, value) == to_string(key) \o <<",">> \o value \o <<DELIMITER>>

\* createStore putting the new Store at the back of the list (push_back)
createStore_stores_PushBack(stores, files, n, openOk) ==
    stores \o <<Store_new(files, n + 1, openOk)>>

\* StorageEngine::createStore on (stores, files) with counter n
createStore_stores(stores, files, n, openOk) ==
    <<Store_new(files, n + 1, openOk)>> \o stores

createStore_files(files, n, openOk) == open(files, n + 1, openOk)

\* position in the list, after the capacity check, of the Store that
\* currStore refers to: the reference is taken from activeStores.front()
\* before onCapacityExceeded() pushes the new Store to the front
currStorePos(rotated) == IF rotated THEN 2 ELSE 1

\* StorageEngine::StorageEngine: totalFiles(0), then init() clears the lists
\* and calls createStore()
StorageEngine_new(files) ==
    [stores |-> createStore_stores(<<>>, files, 0, TRUE),
     files |-> createStore_files(files, 0, TRUE),
     totalFiles |-> 1]

\* a StorageEngine constructed on an empty directory
Init ==
    /\ disk = StorageEngine_new(<<>>).files
    /\ activeStores = StorageEngine_new(<<>>).stores
    /\ totalFiles = StorageEngine_new(<<>>).totalFiles
    /\ ret = [NoRet EXCEPT !.op = "init", !.created = 1]
    /\ lastWrite = <<>>
    /\ sealed = <<>>
    /\ segLog = <<>>
    /\ nOps = 0
    /\ StoreIdle
    /\ FlightIdle

\* StorageEngine::set(key, value)
Set(key, value, ioOk, openOk) ==
    LET data == Encode(key, value)
        bytes == Len(data)
        front == activeStores[1]
        rotated == UGt(Store_getTotalBytes(front) + bytes, MAX_FILE_BYTE_SIZE)
        files1 == IF rotated THEN createStore_files(disk, totalFiles, openOk)
                  ELSE disk
        stores1 == IF rotated
                   THEN createStore_stores(activeStores, disk, totalFiles, openOk)
                   ELSE activeStores
        p == currStorePos(rotated)
        currStore == stores1[p]
        landed == IF currStore.seq \in DOMAIN files1
                  THEN Len(files1[currStore.seq]) ELSE 0
    IN /\ nOps < MaxOps
       /\ nOps' = nOps + 1
       /\ totalFiles' = IF rotated THEN totalFiles + 1 ELSE totalFiles
       /\ activeStores' =
              [stores1 EXCEPT ![p] = Store_set(currStore, key, data, bytes, ioOk)]
       /\ disk' = IF currStore.seq \in DOMAIN files1
                  THEN [files1 EXCEPT ![currStore.seq] =
                           Store_set_file(currStore, @, data, ioOk)]
                  ELSE files1
       /\ ret' = [NoRet EXCEPT !.op = "set", !.key = key, !.value = value,
                               !.result = Store_set_result(currStore),
                               !.store = currStore.seq,
                               !.created = IF rotated THEN totalFiles + 1 ELSE 0,
                               !.existed = rotated /\ (totalFiles + 1) \in DOMAIN disk,
                               !.ioOk = ioOk /\ currStore.good,
                               !.before = <<currStore>>]
       /\ lastWrite' =
              IF Store_set_result(currStore)
              THEN (key :> [value |-> value, seq |-> currStore.seq,
                            offset |-> landed, size |-> bytes]) @@ lastWrite
              ELSE lastWrite
       /\ sealed' =
              IF rotated
              THEN (front.seq :> [store |-> front,
                                  file |-> IF front.seq \in DOMAIN disk
                                           THEN <<disk[front.seq]>> ELSE <<>>])
                   @@ sealed
              ELSE sealed
       /\ segLog' =
              IF Store_set_result(currStore)
              THEN (currStore.seq :>
                       Append(IF currStore.seq \in DOMAIN segLog
                              THEN segLog[currStore.seq] ELSE <<>>,
                              [key |-> key, value |-> value,
                               offset |-> landed, size |-> bytes]))
                   @@ segLog
              ELSE segLog
       /\ UNCHANGED storeVars
       /\ UNCHANGED flightVars

\* StorageEngine::get(key)
Get(key) ==
    LET r == StorageEngine_get(activeStores, disk, key)
    IN /\ ret' = [NoRet EXCEPT !.op = "get", !.key = key, !.result = r.found,
                               !.out = r.out]
       /\ UNCHANGED <<disk, activeStores, totalFiles, lastWrite, nOps>>
       /\ UNCHANGED <<sealed, segLog>>
       /\ UNCHANGED storeVars
       /\ UNCHANGED flightVars

\* a Put whose file opens and whose write and flush succeed
Put(key, value) == Set(key, value, TRUE, TRUE)

\* a Put on which the environment decides the outcome of the I/O
PutIO(key, value, ioOk, openOk) == Set(key, value, ioOk, openOk)

\* the process ends and a new StorageEngine is constructed over the same
\* directory
Restart ==
    /\ nOps < MaxOps
    /\ nOps' = nOps + 1
    /\ activeStores' = StorageEngine_new(disk).stores
    /\ disk' = StorageEngine_new(disk).files
    /\ totalFiles' = StorageEngine_new(disk).totalFiles
    /\ ret' = [NoRet EXCEPT !.op = "init", !.created = 1,
                            !.existed = 1 \in DOMAIN disk,
                            !.before = activeStores]
    /\ sealed' = <<>>
    /\ UNCHANGED <<lastWrite, segLog>>
    /\ UNCHANGED storeVars
    /\ UNCHANGED flightVars

Next ==
    \/ \E key \in Keys, value \in EngineValues : Put(key, value)
    \/ \E key \in Keys : Get(key)

Spec == Init /\ [][Next]_vars

NextIO ==
    \/ \E key \in Keys, value \in IOValues, ioOk \in BOOLEAN, openOk \in BOOLEAN :
           PutIO(key, value, ioOk, openOk)
    \/ \E key \in Keys : Get(key)

SpecIO == Init /\ [][NextIO]_vars

NextRestart ==
    \/ \E key \in Keys, value \in CleanValues : Put(key, value)
    \/ \E key \in Keys : Get(key)
    \/ Restart

SpecRestart == Init /\ [][NextRestart]_vars

\* ------------------------------------------------------------ Store alone
\* the directory as one Store sees it: its own file only
OneFile(bytes) == 1 :> bytes

\* whether the file ends with the whole of the record appended last
EndsWithLastRecord ==
    /\ slog # <<>>
    /\ Len(sfile) = slog[Len(slog)].offset + slog[Len(slog)].size

Snapshot(bytes, cache, totalBytes) ==
    <<[file |-> bytes, cache |-> cache, totalBytes |-> totalBytes]>>

\* Store::Store of the multi program on a file that does not exist yet
InitStore ==
    /\ EngineIdle
    /\ FlightIdle
    /\ nOps = 0
    /\ sfile = open(<<>>, 1, TRUE)[1]
    /\ sstore = Store_new(<<>>, 1, TRUE)
    /\ instance = EmptyHashMap
    /\ slog = <<>>
    /\ sret = [NoSRet EXCEPT !.op = "open"]
    /\ lastOpen = Snapshot(<<>>, EmptyHashMap, 0)

\* Store::set(key, data, bytes) with the frame and the size that
\* StorageEngine::set passes
StoreAppend(key, value) ==
    LET data == Encode(key, value)
        bytes == Len(data)
    IN /\ nOps < MaxStoreOps
       /\ nOps' = nOps + 1
       /\ sstore' = Store_set(sstore, key, data, bytes, TRUE)
       /\ sfile' = Store_set_file(sstore, sfile, data, TRUE)
       /\ slog' = Append(slog, [key |-> key, value |-> value,
                                offset |-> Len(sfile), size |-> bytes])
       /\ sret' = [NoSRet EXCEPT !.op = "set", !.key = key,
                                 !.result = Store_set_result(sstore),
                                 !.clean = sret.clean /\ sret.op # "crash"
                                           /\ value \in CleanValues,
                                 !.before = <<sstore>>]
       /\ UNCHANGED <<instance, lastOpen>>
       /\ UNCHANGED engineVars
       /\ UNCHANGED flightVars

\* Store::get(key, out) with an empty out
StoreRead(key) ==
    LET r == Store_get(sstore, OneFile(sfile), key, <<>>)
    IN /\ sret' = [NoSRet EXCEPT !.op = "get", !.key = key,
                                 !.result = r.found, !.out = r.out,
                                 !.clean = sret.clean /\ sret.op # "crash"]
       /\ UNCHANGED <<sfile, sstore, instance, slog, lastOpen, nOps>>
       /\ UNCHANGED engineVars
       /\ UNCHANGED flightVars

\* the process stops after the last flush and a Store is constructed over
\* the file again
StoreReopen ==
    LET st == Store_new(OneFile(sfile), 1, TRUE)
    IN /\ nOps < MaxStoreOps
       /\ nOps' = nOps + 1
       /\ sstore' = st
       /\ sret' = [NoSRet EXCEPT !.op = "open",
                                 !.clean = sret.clean /\ sret.op # "crash",
                                 !.before = <<sstore>>,
                                 !.prevOpen = lastOpen]
       /\ lastOpen' = Snapshot(sfile, st.cache, st.totalBytes)
       /\ UNCHANGED <<sfile, instance, slog>>
       /\ UNCHANGED engineVars
       /\ UNCHANGED flightVars

\* the process stops while the last record is being written: the last cut
\* bytes of that record never reach the file; then a Store is constructed over
\* the file
StoreCrash(cut) ==
    LET torn == SubSeq(sfile, 1, Len(sfile) - cut)
        st == Store_new(OneFile(torn), 1, TRUE)
    IN /\ nOps < MaxStoreOps
       /\ EndsWithLastRecord
       /\ cut \in 1..slog[Len(slog)].size
       /\ nOps' = nOps + 1
       /\ sfile' = torn
       /\ sstore' = st
       /\ sret' = [NoSRet EXCEPT !.op = "crash", !.cut = cut,
                                 !.clean = sret.clean /\ sret.op # "crash",
                                 !.before = <<sstore>>,
                                 !.prevOpen = lastOpen]
       /\ lastOpen' = Snapshot(torn, st.cache, st.totalBytes)
       /\ UNCHANGED <<instance, slog>>
       /\ UNCHANGED engineVars
       /\ UNCHANGED flightVars

NextStore ==
    \/ \E key \in Keys, value \in StoreValues : StoreAppend(key, value)
    \/ \E key \in Keys : StoreRead(key)
    \/ StoreReopen
    \/ \E cut \in 1..Len(sfile) : StoreCrash(cut)

SpecStore == InitStore /\ [][NextStore]_vars

\* ----------------------------------------------- Store alone, single program
\* the Store of the single program: its cache is HashMap::getInstance()
SingleStore(inst) ==
    [seq |-> 1, cache |-> inst, totalBytes |-> 0, isOpen |-> TRUE,
     good |-> TRUE]

\* Store::init of the single program: the replay adds to the shared instance
Single_init(bytes, inst) == Replay(bytes, 0, inst, 0).cache

\* main of the single program: Store store("store.txt") with no file yet
InitSingle ==
    /\ EngineIdle
    /\ FlightIdle
    /\ nOps = 0
    /\ sfile = open(<<>>, 1, TRUE)[1]
    /\ sstore = NoStore
    /\ instance = EmptyHashMap
    /\ slog = <<>>
    /\ sret = [NoSRet EXCEPT !.op = "open"]
    /\ lastOpen = Snapshot(<<>>, EmptyHashMap, 0)

\* Store::set(key, value) of the single program
SingleSet(key, value) ==
    LET data == Encode(key, value)
    IN /\ nOps < MaxStoreOps
       /\ nOps' = nOps + 1
       /\ sfile' = sfile \o data
       /\ instance' = HashMap_add(instance, key, Len(data))
       /\ slog' = Append(slog, [key |-> key, value |-> value,
                                offset |-> Len(sfile), size |-> Len(data)])
       /\ sret' = [NoSRet EXCEPT !.op = "set", !.key = key, !.result = TRUE,
                                 !.clean = sret.clean /\ value \in CleanValues]
       /\ UNCHANGED <<sstore, lastOpen>>
       /\ UNCHANGED engineVars
       /\ UNCHANGED flightVars

\* Store::get(key, out) of the single program
SingleGet(key) ==
    LET r == Store_get(SingleStore(instance), OneFile(sfile), key, <<>>)
    IN /\ sret' = [NoSRet EXCEPT !.op = "get", !.key = key,
                                 !.result = r.found, !.out = r.out,
                                 !.clean = sret.clean]
       /\ UNCHANGED <<sfile, sstore, instance, slog, lastOpen, nOps>>
       /\ UNCHANGED engineVars
       /\ UNCHANGED flightVars

\* another Store is constructed over the same file in the same process
SingleOpen ==
    /\ nOps < MaxStoreOps
    /\ nOps' = nOps + 1
    /\ instance' = Single_init(sfile, instance)
    /\ sret' = [NoSRet EXCEPT !.op = "open", !.clean = sret.clean,
                              !.prevOpen = lastOpen]
    /\ lastOpen' = Snapshot(sfile, Single_init(sfile, instance), 0)
    /\ UNCHANGED <<sfile, sstore, slog>>
    /\ UNCHANGED engineVars
    /\ UNCHANGED flightVars

NextSingle ==
    \/ \E key \in Keys, value \in Values : SingleSet(key, value)
    \/ \E key \in Keys : SingleGet(key)
    \/ SingleOpen

SpecSingle == InitSingle /\ [][NextSingle]_vars

\* --------------------------------------- StorageEngine::set, step by step
\* The calls of StorageEngine::set in flight, one statement per step.  The
\* source takes no lock, so the statements of two calls, and calls of
\* StorageEngine::get, interleave freely.  A call refers to its Store
\* (Store& currStore) by the Store's position counted from the back of
\* activeStores, which push_front never changes.

\* the callers of StorageEngine::set
Callers == {1, 2}

\* Store::set publishing the index entry before the flush
StoreSetOrder_AddFirst == <<"write", "total", "add", "cursor", "flush">>

\* the statements of Store::set in the order the source executes them:
\* store << data; totalBytes += bytes; store.flush(); cache->add(key, bytes),
\* the last being the two statements of HashMap::add
StoreSetOrder == <<"write", "total", "flush", "add", "cursor">>

\* the position of a call after statement pc of Store::set
After(pc) ==
    LET i == CHOOSE x \in 1..Len(StoreSetOrder) : StoreSetOrder[x] = pc
    IN IF i = Len(StoreSetOrder) THEN "return" ELSE StoreSetOrder[i + 1]

\* position in activeStores of the Store that is cur-th from the back
Pos(cur) == Len(activeStores) - cur + 1

\* the Store that currStore of caller w refers to
CurStore(w) == activeStores[Pos(puts[w].cur)]

\* the bytes in the ofstream buffer of the Store that is cur-th from the back
Buffer(cur) == IF cur \in DOMAIN buffered THEN buffered[cur] ELSE <<>>

At(w, pc) == w \in DOMAIN puts /\ puts[w].pc = pc

Goto(w, pc) == puts' = [puts EXCEPT ![w].pc = pc]

\* data and bytes are computed and currStore is bound to *activeStores.front()
SetBegin(w, key, value) ==
    /\ w \notin DOMAIN puts
    /\ nOps < MaxOps
    /\ nOps' = nOps + 1
    /\ puts' = (w :> [pc |-> "check", key |-> key, value |-> value,
                      data |-> Encode(key, value),
                      bytes |-> Len(Encode(key, value)),
                      cur |-> Len(activeStores), created |-> 0]) @@ puts
    /\ UNCHANGED <<disk, activeStores, totalFiles, ret, lastWrite, sealed,
                   segLog, buffered>>
    /\ UNCHANGED storeVars

\* if (currStore.getTotalBytes() + bytes > MAX_FILE_BYTE_SIZE)
SetCheck(w) ==
    /\ At(w, "check")
    /\ Goto(w, IF UGt(Store_getTotalBytes(CurStore(w)) + puts[w].bytes,
                      MAX_FILE_BYTE_SIZE)
               THEN "count" ELSE StoreSetOrder[1])
    /\ UNCHANGED <<disk, activeStores, totalFiles, ret, lastWrite, sealed,
                   segLog, buffered, nOps>>
    /\ UNCHANGED storeVars

\* createStore: totalFiles += 1
CreateCount(w) ==
    /\ At(w, "count")
    /\ totalFiles' = totalFiles + 1
    /\ Goto(w, "create")
    /\ UNCHANGED <<disk, activeStores, ret, lastWrite, sealed, segLog,
                   buffered, nOps>>
    /\ UNCHANGED storeVars

\* createStore: the Store named after totalFiles is constructed and pushed
\* to the front
CreateStore(w) ==
    /\ At(w, "create")
    /\ activeStores' = createStore_stores(activeStores, disk, totalFiles - 1, TRUE)
    /\ disk' = createStore_files(disk, totalFiles - 1, TRUE)
    /\ puts' = [puts EXCEPT ![w].pc = StoreSetOrder[1],
                            ![w].created = totalFiles]
    /\ UNCHANGED <<totalFiles, ret, lastWrite, sealed, segLog, buffered, nOps>>
    /\ UNCHANGED storeVars

\* store << data: the bytes go to the stream's buffer
StoreWrite(w) ==
    /\ At(w, "write")
    /\ buffered' = (puts[w].cur :> (Buffer(puts[w].cur) \o puts[w].data))
                       @@ buffered
    /\ Goto(w, After("write"))
    /\ UNCHANGED <<disk, activeStores, totalFiles, ret, lastWrite, sealed,
                   segLog, nOps>>
    /\ UNCHANGED storeVars

\* totalBytes += bytes
StoreTotal(w) ==
    /\ At(w, "total")
    /\ activeStores' = [activeStores EXCEPT ![Pos(puts[w].cur)].totalBytes =
                                                @ + puts[w].bytes]
    /\ Goto(w, After("total"))
    /\ UNCHANGED <<disk, totalFiles, ret, lastWrite, sealed, segLog,
                   buffered, nOps>>
    /\ UNCHANGED storeVars

\* store.flush(): the buffer is appended to the file (std::ios::app)
StoreFlush(w) ==
    /\ At(w, "flush")
    /\ disk' = [disk EXCEPT ![CurStore(w).seq] = @ \o Buffer(puts[w].cur)]
    /\ buffered' = (puts[w].cur :> <<>>) @@ buffered
    /\ Goto(w, After("flush"))
    /\ UNCHANGED <<activeStores, totalFiles, ret, lastWrite, sealed, segLog,
                   nOps>>
    /\ UNCHANGED storeVars

\* HashMap::add: (*this)[key] = { currByteOffset, recordSize }
StoreAdd(w) ==
    /\ At(w, "add")
    /\ activeStores' =
           [activeStores EXCEPT ![Pos(puts[w].cur)].cache.entries =
               HashMap_add(CurStore(w).cache, puts[w].key, puts[w].bytes).entries]
    /\ Goto(w, After("add"))
    /\ UNCHANGED <<disk, totalFiles, ret, lastWrite, sealed, segLog,
                   buffered, nOps>>
    /\ UNCHANGED storeVars

\* HashMap::add: currByteOffset += recordSize
StoreCursor(w) ==
    /\ At(w, "cursor")
    /\ activeStores' =
           [activeStores EXCEPT ![Pos(puts[w].cur)].cache.currByteOffset =
               HashMap_add(CurStore(w).cache, puts[w].key, puts[w].bytes)
                   .currByteOffset]
    /\ Goto(w, After("cursor"))
    /\ UNCHANGED <<disk, totalFiles, ret, lastWrite, sealed, segLog,
                   buffered, nOps>>
    /\ UNCHANGED storeVars

\* return true, from Store::set and from StorageEngine::set
SetReturn(w) ==
    /\ At(w, "return")
    /\ puts' = [c \in DOMAIN puts \ {w} |-> puts[c]]
    /\ ret' = [NoRet EXCEPT !.op = "set", !.key = puts[w].key,
                            !.value = puts[w].value, !.result = TRUE,
                            !.store = CurStore(w).seq,
                            !.created = puts[w].created]
    /\ UNCHANGED <<disk, activeStores, totalFiles, lastWrite, sealed, segLog,
                   buffered, nOps>>
    /\ UNCHANGED storeVars

\* one caller of set, and calls of get between its statements
NextPublish ==
    \/ \E key \in Keys, value \in IOValues : SetBegin(1, key, value)
    \/ SetCheck(1)
    \/ CreateCount(1)
    \/ CreateStore(1)
    \/ StoreWrite(1)
    \/ StoreTotal(1)
    \/ StoreFlush(1)
    \/ StoreAdd(1)
    \/ StoreCursor(1)
    \/ SetReturn(1)
    \/ \E key \in Keys : Get(key)

SpecPublish == Init /\ [][NextPublish]_vars

\* two callers of set
NextWriters ==
    \/ \E w \in Callers, key \in Keys, value \in IOValues : SetBegin(w, key, value)
    \/ \E w \in Callers : SetCheck(w)
    \/ \E w \in Callers : CreateCount(w)
    \/ \E w \in Callers : CreateStore(w)
    \/ \E w \in Callers : StoreWrite(w)
    \/ \E w \in Callers : StoreTotal(w)
    \/ \E w \in Callers : StoreFlush(w)
    \/ \E w \in Callers : StoreAdd(w)
    \/ \E w \in Callers : StoreCursor(w)
    \/ \E w \in Callers : SetReturn(w)

SpecWriters == Init /\ [][NextWriters]_vars

\* ------------------------------------------------------------------ claims
\* the store of the list whose sequence number is n
StoreOf(stores, n) == stores[CHOOSE i \in 1..Len(stores) : stores[i].seq = n]

\* the index entry a lookup of key resolves to: the entry of the first store,
\* front to back, that has one
Resolved(stores, key) ==
    LET has == {i \in 1..Len(stores) : key \in DOMAIN stores[i].cache.entries}
        i == CHOOSE x \in has : \A y \in has : x <= y
    IN [seq |-> stores[i].seq, offset |-> stores[i].cache.entries[key].byteOffset,
        size |-> stores[i].cache.entries[key].byteSize]

\* C1: after a successful Put(key, value) that no later Put overwrites,
\* Get(key) reports found and returns exactly the bytes of value.
C1_RoundTrip ==
    (ret.op = "get" /\ ret.key \in DOMAIN lastWrite)
        => (ret.result /\ ret.out = lastWrite[ret.key].value)

\* C2: Get(K) resolves to the record written by the most recent Put(K):
\* the entry found first, front to back, is the byte range where that Put's
\* frame landed, those bytes are that frame, and Get returns what is read
\* there.
C2_LastWriteWins ==
    /\ \A k \in DOMAIN lastWrite :
          LET w == lastWrite[k]
              r == StorageEngine_get(activeStores, disk, k)
          IN /\ Resolved(activeStores, k) =
                    [seq |-> w.seq, offset |-> w.offset, size |-> w.size]
             /\ SubSeq(disk[w.seq], w.offset + 1, w.offset + w.size)
                    = Encode(k, w.value)
             /\ r.found
             /\ r.out = Getline(disk[w.seq], w.offset).data
    /\ (ret.op = "get" /\ ret.key \in DOMAIN lastWrite)
          => ret.out = Getline(disk[lastWrite[ret.key].seq],
                               lastWrite[ret.key].offset).data

\* a Get of a key that has records in two segments
C2_Witness ==
    /\ ret.op = "get"
    /\ ret.result
    /\ \E i \in 1..Len(activeStores) :
          /\ activeStores[i].seq # lastWrite[ret.key].seq
          /\ ret.key \in DOMAIN activeStores[i].cache.entries

\* C3: once Put(K, v) has succeeded, Get(K) reports found after every later
\* sequence of Puts, however many segments they create.
C3_FoundAfterRotation ==
    /\ \A k \in DOMAIN lastWrite :
          StorageEngine_get(activeStores, disk, k).found
    /\ (ret.op = "get" /\ ret.key \in DOMAIN lastWrite) => ret.result

\* a Get that finds a key whose record is two rotations old
C3_Witness ==
    /\ ret.op = "get"
    /\ ret.result
    /\ Len(activeStores) >= 3
    /\ lastWrite[ret.key].seq = 1

\* C4: Get on a key that was never Put reports not found: no segment's
\* Store::get returns true and StorageEngine::get returns the null result.
C4_NotFound ==
    /\ \A k \in Keys \ DOMAIN lastWrite :
          /\ \A i \in 1..Len(activeStores) :
                ~Store_get(activeStores[i], disk, k, <<>>).found
          /\ StorageEngine_get(activeStores, disk, k)
                 = [found |-> FALSE, out |-> <<>>]
    /\ (ret.op = "get" /\ ret.key \notin DOMAIN lastWrite)
          => (~ret.result /\ ret.out = <<>>)

\* a Get of a key never Put, after Puts to another key filled two segments
C4_Witness ==
    /\ ret.op = "get"
    /\ ~ret.result
    /\ ret.key \notin DOMAIN lastWrite
    /\ lastWrite # <<>>
    /\ \E i, j \in 1..Len(activeStores) :
          i # j /\ disk[activeStores[i].seq] # <<>> /\ disk[activeStores[j].seq] # <<>>

\* C7: if the write or the flush of an append fails, Put returns false and
\* the segment's cursor, size counter and index are what they were before.
C7_FailedPutReportsFalse ==
    (ret.op = "set" /\ ~ret.ioOk)
        => /\ ret.result = FALSE
           /\ StoreOf(activeStores, ret.store).cache = ret.before[1].cache
           /\ StoreOf(activeStores, ret.store).totalBytes = ret.before[1].totalBytes

\* C8: every newly created segment gets a sequence number that no segment
\* file already on disk has.
C8_SequenceNeverReused == ret.created # 0 => ~ret.existed

\* C10: whenever StorageEngine::set creates a segment, the record of that
\* call is appended to the new segment, the one now at position 0.
C10_RotatingPutWritesNewSegment ==
    (ret.op = "set" /\ ret.created # 0)
        => (ret.store = ret.created /\ ret.store = activeStores[1].seq)

\* the index that the records of log, appended in order, amount to
ExpectedIndex(log) ==
    [k \in {log[i].key : i \in 1..Len(log)} |->
        LET i == CHOOSE x \in 1..Len(log) :
                     /\ log[x].key = k
                     /\ \A y \in 1..Len(log) : log[y].key = k => y <= x
        IN [byteOffset |-> log[i].offset, byteSize |-> log[i].size]]

\* C5: for appends to a fresh segment whose values hold no delimiter byte,
\* reopening the file rebuilds exactly the index the appends had built (same
\* keys, same (offset, length), same cursor), and Get returns after the reopen
\* what it returned before for every key written.
C5_ReplayRebuildsIndex ==
    (sret.op = "open" /\ sret.clean /\ sret.before # <<>>)
        => /\ sstore.cache = sret.before[1].cache
           /\ sstore.totalBytes = sret.before[1].totalBytes
           /\ sstore.cache.entries = ExpectedIndex(slog)
           /\ sstore.cache.currByteOffset = Len(sfile)
           /\ \A i \in 1..Len(slog) :
                 /\ Store_get(sstore, OneFile(sfile), slog[i].key, <<>>).found
                 /\ Store_get(sstore, OneFile(sfile), slog[i].key, <<>>)
                      = Store_get(sret.before[1], OneFile(sfile), slog[i].key, <<>>)

\* a reopen after appends of delimiter-free values, one overwriting a key
C5_Witness ==
    /\ sret.op = "open"
    /\ sret.clean
    /\ sret.before # <<>>
    /\ Len(slog) >= 2
    /\ \E i, j \in 1..Len(slog) : i < j /\ slog[i].key = slog[j].key

\* C6: when a file whose final record was cut short is opened, that record is
\* not indexed, every earlier complete record keeps its (offset, length) and
\* the cursor ends at the end of the last complete record.
C6_TruncatedTailDropped ==
    (sret.op = "crash" /\ sret.clean)
        => LET complete == SubSeq(slog, 1, Len(slog) - 1)
               end == slog[Len(slog)].offset
           IN /\ sstore.cache.entries = ExpectedIndex(complete)
              /\ sstore.cache.currByteOffset = end
              /\ sstore.totalBytes = end

\* C9: opening a Store over the same unchanged file twice in one process
\* yields the same index both times: same keys, same (offset, length), same
\* cursor.
C9_IdempotentReplay ==
    (sret.op = "open" /\ sret.prevOpen # <<>> /\ sret.prevOpen[1].file = sfile)
        => lastOpen[1].cache = sret.prevOpen[1].cache

\* C11: a segment that a newer segment has been pushed in front of keeps the
\* file contents, the index and the size counter it had at that moment.
C11_SealedNeverMutated ==
    \A n \in DOMAIN sealed :
        /\ StoreOf(activeStores, n).cache = sealed[n].store.cache
        /\ StoreOf(activeStores, n).totalBytes = sealed[n].store.totalBytes
        /\ sealed[n].file = IF n \in DOMAIN disk THEN <<disk[n]>> ELSE <<>>

\* C12: a call of StorageEngine::set creates a segment exactly when the size
\* of the segment at position 0 plus the length of the encoded frame is
\* greater than MAX_FILE_BYTE_SIZE, and then it creates exactly one, pushed
\* to position 0; a call whose frame fits creates none.
C12_RotatesExactlyWhenOverThreshold ==
    [][(nOps' = nOps + 1 /\ ret'.op = "set") =>
          LET size == Len(disk[activeStores[1].seq])
              frame == Len(Encode(ret'.key, ret'.value))
          IN /\ Store_getTotalBytes(activeStores[1]) = size
             /\ IF size + frame > MAX_FILE_BYTE_SIZE
                THEN /\ Len(activeStores') = Len(activeStores) + 1
                     /\ DOMAIN disk' = DOMAIN disk \cup {activeStores'[1].seq}
                     /\ activeStores'[1].seq \notin DOMAIN disk
                     /\ \A i \in 1..Len(activeStores) :
                           activeStores'[i + 1].seq = activeStores[i].seq
                ELSE /\ Len(activeStores') = Len(activeStores)
                     /\ DOMAIN disk' = DOMAIN disk
                     /\ ret'.created = 0]_vars

\* a Put that fills the segment at position 0 to exactly MAX_FILE_BYTE_SIZE
\* bytes has created no segment, and the next Put has created one
C12_Witness ==
    /\ ret.op = "set"
    /\ ret.created # 0
    /\ Store_getTotalBytes(ret.before[1]) = MAX_FILE_BYTE_SIZE
    /\ Len(activeStores) = 2

\* the keys of the records of a file from byte position pos up to the first
\* record that fails to decode: an empty frame, no comma, no numeric key
RECURSIVE KeysUntilUndecodable(_, _)
KeysUntilUndecodable(bytes, pos) ==
    LET g == Getline(bytes, pos)
        commaPos == FindFrom(g.data, 0, ",")
        parsed == stoi(SubSeq(g.data, 1, commaPos - 1))
    IN IF g.data = <<>> \/ commaPos = 0 \/ ~parsed.ok THEN {}
       ELSE IF g.eof THEN {parsed.value}
       ELSE {parsed.value} \cup KeysUntilUndecodable(bytes, g.pos)

\* C13: when Store::init has replayed a file, the index holds no key of a
\* record located after the first record that fails to decode.
C13_ReplayStopsAtUndecodable ==
    (sret.op \in {"open", "crash"})
        => DOMAIN sstore.cache.entries \subseteq KeysUntilUndecodable(sfile, 0)

\* the records appended to the file of segment n so far
LogOf(n) == IF n \in DOMAIN segLog THEN segLog[n] ELSE <<>>

\* the record appended last for key among the records of log
LastRecord(log, key) ==
    log[CHOOSE x \in 1..Len(log) :
            /\ log[x].key = key
            /\ \A y \in 1..Len(log) : log[y].key = key => y <= x]

\* C14: on an empty directory, in every state, every entry (offset, length)
\* of every segment's index is the exact byte range of the record appended
\* last for that key to that segment's file, with length > 0 and
\* offset + length <= the size of the file.
C14_IndexEntriesExact ==
    \A i \in 1..Len(activeStores) :
        LET st == activeStores[i]
            file == disk[st.seq]
            log == LogOf(st.seq)
        IN /\ DOMAIN st.cache.entries = {log[x].key : x \in 1..Len(log)}
           /\ \A key \in DOMAIN st.cache.entries :
                 LET e == st.cache.entries[key]
                     r == LastRecord(log, key)
                 IN /\ e.byteOffset = r.offset
                    /\ e.byteSize = r.size
                    /\ e.byteSize > 0
                    /\ e.byteOffset + e.byteSize <= Len(file)
                    /\ SubSeq(file, e.byteOffset + 1, e.byteOffset + e.byteSize)
                          = Encode(key, r.value)

\* two segments, and in one of them a key written twice and another key
\* written after it
C14_Witness ==
    /\ Len(activeStores) >= 2
    /\ \E n \in DOMAIN segLog :
          \E x, y, z \in 1..Len(segLog[n]) :
              /\ x < y /\ y < z
              /\ segLog[n][x].key = segLog[n][y].key
              /\ segLog[n][z].key # segLog[n][y].key

\* the file that the records of log, appended whole and in order, make
RECURSIVE Frames(_)
Frames(log) ==
    IF log = <<>> THEN <<>>
    ELSE Frames(SubSeq(log, 1, Len(log) - 1))
             \o Encode(log[Len(log)].key, log[Len(log)].value)

\* C15: over a file made of whole appended frames, whatever bytes their
\* values hold, after Store::init has replayed it and after every later
\* append the HashMap cursor, getTotalBytes() and the file length are equal.
C15_CursorEqualsFileLength ==
    (sret.op \in {"open", "set"} /\ sfile = Frames(slog))
        => /\ sstore.cache.currByteOffset = Len(sfile)
           /\ Store_getTotalBytes(sstore) = Len(sfile)

\* C16: across Puts and restarts over the same directory, a lookup of every
\* key ever Put finds it and returns what reading the frame of the most recent
\* Put of that key yields.
C16_RestartKeepsLatest ==
    \A k \in DOMAIN lastWrite :
        LET r == StorageEngine_get(activeStores, disk, k)
        IN /\ r.found
           /\ r.out = Getline(Encode(k, lastWrite[k].value), 0).data

\* C19: after construction and after every Put the list of segments is
\* non-empty, its sequence numbers strictly decrease from position 0, the
\* segment at position 0 is the one created last, and the list holds
\* totalFiles segments.
C19_NewestFirst ==
    /\ Len(activeStores) >= 1
    /\ \A i, j \in 1..Len(activeStores) :
          i < j => activeStores[i].seq > activeStores[j].seq
    /\ activeStores[1].seq = totalFiles
    /\ ret.created # 0 => activeStores[1].seq = ret.created
    /\ Len(activeStores) = totalFiles

\* a Put that has created the third segment
C19_Witness ==
    /\ ret.op = "set"
    /\ ret.created = 3
    /\ Len(activeStores) = 3

\* C20: on an empty directory, as long as every frame written is at most
\* MAX_FILE_BYTE_SIZE bytes long, getTotalBytes() and the file length of
\* every segment are at most MAX_FILE_BYTE_SIZE.
C20_SegmentWithinThreshold ==
    (\A n \in DOMAIN segLog : \A x \in 1..Len(segLog[n]) :
         segLog[n][x].size <= MAX_FILE_BYTE_SIZE)
        => \A i \in 1..Len(activeStores) :
              /\ Store_getTotalBytes(activeStores[i]) <= MAX_FILE_BYTE_SIZE
              /\ Len(disk[activeStores[i].seq]) <= MAX_FILE_BYTE_SIZE

\* every entry of the index of Store st covers bytes that are in st's file
\* and are a whole frame of the entry's key
EntriesInFile(st) ==
    \A key \in DOMAIN st.cache.entries :
        LET e == st.cache.entries[key]
        IN /\ e.byteOffset + e.byteSize <= Len(disk[st.seq])
           /\ \E value \in IOValues :
                 SubSeq(disk[st.seq], e.byteOffset + 1, e.byteOffset + e.byteSize)
                     = Encode(key, value)

\* C17: at every step of a call of set in flight, every index entry covers
\* bytes that have already been flushed to the file (the entry is inserted
\* after the write and the flush), and a Get between any two steps that
\* finds a key returns a whole record of that key.
C17_PublishAfterWrite ==
    /\ \A i \in 1..Len(activeStores) : EntriesInFile(activeStores[i])
    /\ \A w \in DOMAIN puts :
          (puts[w].pc \in {"add", "cursor"}) => Buffer(puts[w].cur) = <<>>
    /\ (ret.op = "get" /\ ret.result)
          => \E value \in IOValues :
                 ret.out \o <<DELIMITER>> = Encode(ret.key, value)

\* a Get between the two statements of HashMap::add of the first Put has
\* found that Put's record
C17_Witness ==
    /\ nOps = 1
    /\ At(1, "cursor")
    /\ ret.op = "get"
    /\ ret.result
    /\ ret.key = puts[1].key
    /\ ret.out \o <<DELIMITER>> = puts[1].data

\* C18: after two concurrent calls of set have both returned, every index
\* entry covers a whole frame of its key in its segment's file, no two
\* Stores of the list are over the same file, and the list holds totalFiles
\* segments with the newest at position 0.
C18_WritersSerialized ==
    (puts = <<>>)
        => /\ \A i \in 1..Len(activeStores) : EntriesInFile(activeStores[i])
           /\ \A i, j \in 1..Len(activeStores) :
                 i < j => activeStores[i].seq > activeStores[j].seq
           /\ Len(activeStores) = totalFiles

====
